---- MODULE Spec2Model ----
(***************************************************************************)
(* Bitrate Scaler (custom_components/bitrate_scaler): derived sensors that *)
(* rescale a bit/s source sensor to kbit/s or Mbit/s, the config flow and  *)
(* options flow that store their configuration, and entry setup/unload.    *)
(*                                                                         *)
(* Numbers.  A Python float is modelled as a record                        *)
(*     [k |-> "num", m |-> mantissa, e |-> decimal exponent]  = m * 10^-e  *)
(* kept normalised (no trailing zero in m while e > 0), or as one of the   *)
(* specials "nan", "inf", "ninf".  Division by 1000 and 1000000, round()   *)
(* and the fixed-point format are exact on this representation; Python     *)
(* rounds the binary double, which differs only on decimal ties that are   *)
(* not exactly representable in binary, and the values used here avoid     *)
(* those ties.                                                             *)
(***************************************************************************)
EXTENDS Integers, Sequences, FiniteSets, TLC

VARIABLES probe,      \* one call of _scale: its arguments and its result
          states,     \* hass.states: entity id -> state string, or NoState
          friendly,   \* hass.states: entity id -> friendly_name attribute, or NoneStr
          entries,    \* hass.config_entries: entry id -> entry.data, or NoData
          hassData,   \* hass.data[DOMAIN]: entry id -> data, or NoData
          sensors,    \* the BitrateScalerSensor instances, in creation order
          written,    \* per instance: the state last written to the state machine
          scheduled,  \* per instance: an update scheduled and not yet run
          loaded,     \* per entry id: the entry's load state in the host
          host,       \* how the host reads an entity's properties (fixed per run)
          userFlow,   \* the result of the last BitrateScalerConfigFlow step
          optFlow     \* the BitrateScalerOptionsFlow in progress

vars == <<probe, states, friendly, entries, hassData, sensors, written, scheduled,
          loaded, host, userFlow, optFlow>>

(***************************************************************************)
(* const.py                                                                *)
(***************************************************************************)
\* DOMAIN (a reserved word of TLA+)
DOMAIN_TAG == "bitrate_scaler"
DEFAULT_KBIT_THRESHOLD == 1000
DEFAULT_MBIT_THRESHOLD == 1000000
MODE_DYNAMIC_UNIT == "dynamic_unit"
MODE_FIXED_WITH_ATTR == "fixed_unit_with_attribute"
DEFAULT_MODE == MODE_FIXED_WITH_ATTR
DEFAULT_PRECISION == 2

(***************************************************************************)
(* Python floats                                                           *)
(***************************************************************************)
RECURSIVE Pow10(_)
Pow10(n) == IF n = 0 THEN 1 ELSE 10 * Pow10(n - 1)

Abs(i) == IF i < 0 THEN -i ELSE i

NaN == [k |-> "nan", m |-> 0, e |-> 0]
PosInf == [k |-> "inf", m |-> 0, e |-> 0]
NegInf == [k |-> "ninf", m |-> 0, e |-> 0]

RECURSIVE Norm(_, _)
Norm(m, e) ==
    IF m = 0 THEN [k |-> "num", m |-> 0, e |-> 0]
    ELSE IF e > 0 /\ m % 10 = 0 THEN Norm(m \div 10, e - 1)
    ELSE [k |-> "num", m |-> m, e |-> e]

\* float(i) for a Python int i
IntToFloat(i) == Norm(i, 0)

isnan(x) == x.k = "nan"

\* x >= y on floats: every comparison with NaN is False
FloatGe(x, y) ==
    CASE isnan(x) \/ isnan(y) -> FALSE
      [] x.k = "inf" -> TRUE
      [] y.k = "ninf" -> TRUE
      [] x.k = "ninf" -> FALSE
      [] y.k = "inf" -> FALSE
      [] OTHER -> x.m * Pow10(y.e) >= y.m * Pow10(x.e)

FloatGt(x, y) == FloatGe(x, y) /\ ~FloatGe(y, x)

\* x / 10^d for d > 0 (the code divides by 1_000.0 and 1_000_000.0)
FloatDivPow10(x, d) == IF x.k = "num" THEN Norm(x.m, x.e + d) ELSE x

\* |m| * 10^-e rounded half-to-even to p fractional digits, as an integer
\* count of units of 10^-p
RoundedUnits(m, e, p) ==
    IF e <= p THEN Abs(m) * Pow10(p - e)
    ELSE LET d == Pow10(e - p)
             q == Abs(m) \div d
             r == Abs(m) % d
         IN  IF 2 * r > d \/ (2 * r = d /\ q % 2 = 1) THEN q + 1 ELSE q

\* round(x, p) with an explicit ndigits: a float again, NaN and the
\* infinities unchanged
round(x, p) ==
    IF x.k # "num" \/ x.e <= p THEN x
    ELSE Norm((IF x.m < 0 THEN -1 ELSE 1) * RoundedUnits(x.m, x.e, p), p)

RECURSIVE ZeroPad(_, _)
ZeroPad(s, width) == IF Len(s) >= width THEN s ELSE ZeroPad("0" \o s, width)

RECURSIVE Zeros(_)
Zeros(n) == IF n = 0 THEN "" ELSE "0" \o Zeros(n - 1)

\* f"{x:.{p}f}"
FormatFixed(x, p) ==
    CASE x.k = "nan" -> "nan"
      [] x.k = "inf" -> "inf"
      [] x.k = "ninf" -> "-inf"
      [] OTHER ->
           LET sign == IF x.m < 0 THEN "-" ELSE ""
               whole == IF x.e <= p THEN Abs(x.m) \div Pow10(x.e)
                        ELSE RoundedUnits(x.m, x.e, p) \div Pow10(p)
               frac == IF x.e <= p
                       THEN (IF x.e = 0 THEN ""
                             ELSE ZeroPad(ToString(Abs(x.m) % Pow10(x.e)), x.e))
                            \o Zeros(p - x.e)
                       ELSE ZeroPad(ToString(RoundedUnits(x.m, x.e, p) % Pow10(p)), p)
           IN  sign \o ToString(whole) \o (IF p = 0 THEN "" ELSE "." \o frac)

(***************************************************************************)
(* Values of the model                                                     *)
(***************************************************************************)
\* Python's None, where a float is expected and where a string is expected
NoneVal == [k |-> "none", m |-> 0, e |-> 0]
NoneStr == "<None>"

\* hass.states.get(entity_id) returning None: the entity has no state
NoState == "<no state>"

\* The upstream entities; the selector offers sensor.*.rx and sensor.*.tx
Sources == {"sensor.wan.rx", "sensor.wan.tx"}

\* State strings an upstream entity takes
NumericTexts == {"-5", "500", "999.5", "1000", "1500", "1234567", "2500000"}
StateTexts == NumericTexts \cup {"nan", "inf", "unknown"}

\* float(s) for a state string s: ok is FALSE where Python raises ValueError
float(s) ==
    CASE s = "-5" -> [ok |-> TRUE, v |-> Norm(-5, 0)]
      [] s = "500" -> [ok |-> TRUE, v |-> Norm(500, 0)]
      [] s = "999.5" -> [ok |-> TRUE, v |-> Norm(9995, 1)]
      [] s = "1000" -> [ok |-> TRUE, v |-> Norm(1000, 0)]
      [] s = "1500" -> [ok |-> TRUE, v |-> Norm(1500, 0)]
      [] s = "1234567" -> [ok |-> TRUE, v |-> Norm(1234567, 0)]
      [] s = "2500000" -> [ok |-> TRUE, v |-> Norm(2500000, 0)]
      [] s = "nan" -> [ok |-> TRUE, v |-> NaN]
      [] s = "inf" -> [ok |-> TRUE, v |-> PosInf]
      [] s = "-inf" -> [ok |-> TRUE, v |-> NegInf]
      [] OTHER -> [ok |-> FALSE, v |-> NoneVal]

(***************************************************************************)
(* sensor.py: BitrateScalerSensor                                          *)
(***************************************************************************)
\* _scale with the thresholds taken as exclusive lower bounds
ScaleExclusive(raw_bits, kb, mb) ==
    CASE isnan(raw_bits) -> [value |-> NaN, unit |-> "bit/s"]
      [] FloatGt(raw_bits, mb) -> [value |-> FloatDivPow10(raw_bits, 6), unit |-> "Mbit/s"]
      [] FloatGt(raw_bits, kb) -> [value |-> FloatDivPow10(raw_bits, 3), unit |-> "kbit/s"]
      [] OTHER -> [value |-> raw_bits, unit |-> "bit/s"]

\* _scale(raw_bits) with the instance's thresholds kb = _kb_thr, mb = _mb_thr
_scale(raw_bits, kb, mb) ==
    CASE isnan(raw_bits) -> [value |-> NaN, unit |-> "bit/s"]
      [] FloatGe(raw_bits, mb) -> [value |-> FloatDivPow10(raw_bits, 6), unit |-> "Mbit/s"]
      [] FloatGe(raw_bits, kb) -> [value |-> FloatDivPow10(raw_bits, 3), unit |-> "kbit/s"]
      [] OTHER -> [value |-> raw_bits, unit |-> "bit/s"]

\* The marker every display name ends with
NAME_SUFFIX == " (skaliert)"

\* _derive_name preferring the source's friendly name to the alias
DeriveNameFriendlyFirst(source_entity_id, name_override) ==
    IF states[source_entity_id] # NoState /\ friendly[source_entity_id] \notin {NoneStr, ""}
    THEN friendly[source_entity_id] \o NAME_SUFFIX
    ELSE IF name_override \notin {NoneStr, ""}
    THEN name_override \o NAME_SUFFIX
    ELSE source_entity_id \o NAME_SUFFIX

\* _derive_name, called by __init__ with self._source and self._name_override:
\* a truthy alias, else a truthy friendly_name of the source's current state,
\* else the source's entity id
_derive_name(source_entity_id, name_override) ==
    IF name_override \notin {NoneStr, ""}
    THEN name_override \o NAME_SUFFIX
    ELSE IF states[source_entity_id] # NoState
            /\ friendly[source_entity_id] \notin {NoneStr, ""}
    THEN friendly[source_entity_id] \o NAME_SUFFIX
    ELSE source_entity_id \o NAME_SUFFIX

\* __init__: the configuration is copied into the instance and the display
\* cache starts as ("bit/s", None).  In fixed mode __init__ also sets
\* _attr_native_unit_of_measurement = "bit/s", which the
\* native_unit_of_measurement property below overrides.
BitrateScalerSensor(entry_id, source_entity_id, name_override, mode, precision, kbit_threshold, mbit_threshold) ==
    [_entry_id |-> entry_id,
     _source |-> source_entity_id,
     _name_override |-> name_override,
     _mode |-> mode,
     _precision |-> precision,
     _kb_thr |-> kbit_threshold,
     _mb_thr |-> mbit_threshold,
     _display_unit |-> "bit/s",
     _display_value |-> NoneVal,
     _attr_unique_id |-> DOMAIN_TAG \o ":" \o entry_id \o ":" \o source_entity_id,
     _attr_name |-> _derive_name(source_entity_id, name_override),
     phase |-> "created"]

\* available: the source has a state and float() accepts it
available(self) ==
    LET src_state == states[self._source]
    IN  src_state # NoState /\ float(src_state).ok

\* extra_state_attributes without its math.isnan test
ExtraStateAttributesNaNFormatted(self) ==
    [source_entity_id |-> self._source,
     display_unit |-> self._display_unit,
     mode |-> self._mode,
     precision |-> self._precision,
     kb_threshold_bits |-> self._kb_thr,
     mb_threshold_bits |-> self._mb_thr,
     display_value_str |->
        IF self._display_value # NoneVal
        THEN FormatFixed(self._display_value, self._precision) \o " " \o self._display_unit
        ELSE NoneStr]

\* extra_state_attributes; display_value_str is NoneStr when the key is absent
extra_state_attributes(self) ==
    [source_entity_id |-> self._source,
     display_unit |-> self._display_unit,
     mode |-> self._mode,
     precision |-> self._precision,
     kb_threshold_bits |-> self._kb_thr,
     mb_threshold_bits |-> self._mb_thr,
     display_value_str |->
        IF self._display_value # NoneVal /\ ~isnan(self._display_value)
        THEN FormatFixed(self._display_value, self._precision) \o " " \o self._display_unit
        ELSE NoneStr]

\* native_value returning the scaled value in both modes
NativeValueAlwaysScaled(self) ==
    LET src_state == states[self._source]
    IN  IF src_state = NoState THEN [ret |-> NoneVal, self |-> self]
        ELSE IF ~float(src_state).ok
        THEN [ret |-> NoneVal,
              self |-> [self EXCEPT !._display_value = NoneVal, !._display_unit = "bit/s"]]
        ELSE LET raw == float(src_state).v
                 scaled == _scale(raw, self._kb_thr, self._mb_thr)
             IN  [ret |-> round(scaled.value, self._precision),
                  self |-> [self EXCEPT !._display_value = scaled.value,
                                        !._display_unit = scaled.unit]]

\* native_value leaving the display cache as it found it
NativeValueNoCache(self) ==
    LET src_state == states[self._source]
    IN  IF src_state = NoState \/ ~float(src_state).ok THEN [ret |-> NoneVal, self |-> self]
        ELSE LET raw == float(src_state).v
                 scaled == _scale(raw, self._kb_thr, self._mb_thr)
             IN  IF self._mode = MODE_DYNAMIC_UNIT
                 THEN [ret |-> round(scaled.value, self._precision), self |-> self]
                 ELSE [ret |-> round(raw, self._precision), self |-> self]

\* native_value: the value returned (ret) and the instance afterwards (self),
\* since the getter writes the display cache
native_value(self) ==
    LET src_state == states[self._source]
    IN  IF src_state = NoState THEN [ret |-> NoneVal, self |-> self]
        ELSE IF ~float(src_state).ok
        THEN [ret |-> NoneVal,
              self |-> [self EXCEPT !._display_value = NoneVal, !._display_unit = "bit/s"]]
        ELSE LET raw == float(src_state).v
                 scaled == _scale(raw, self._kb_thr, self._mb_thr)
                 cached == [self EXCEPT !._display_value = scaled.value,
                                        !._display_unit = scaled.unit]
             IN  IF self._mode = MODE_DYNAMIC_UNIT
                 THEN [ret |-> round(scaled.value, self._precision), self |-> cached]
                 ELSE [ret |-> round(raw, self._precision), self |-> cached]

native_unit_of_measurement(self) ==
    IF self._mode = MODE_DYNAMIC_UNIT THEN self._display_unit ELSE "bit/s"

(***************************************************************************)
(* The host's side of an entity: async_write_ha_state, the state-change    *)
(* subscription and the scheduled updates                                  *)
(***************************************************************************)
\* Updates one instance may have scheduled and not yet run
MaxScheduled == 2

Instances == DOMAIN sensors

NoAttrs == [absent |-> TRUE]

NotWritten ==
    [done |-> FALSE, seen |-> NoState, available |-> FALSE, state |-> NoneVal,
     unit |-> NoneStr, attributes |-> NoAttrs]

\* The ways a host reads the properties during a state write.  The sensor
\* platform reads native_unit_of_measurement on both sides of native_value,
\* so which of the two readings ends up as the written unit is left open
\* (unitFirst), and so is whether native_value is evaluated at all for an
\* entity that is not available (evalUnavailable).
Hosts == [unitFirst : BOOLEAN, evalUnavailable : BOOLEAN]

\* The host as Home Assistant's entity base class behaves: it writes the
\* unit it reads after the state, and does not evaluate the state of an
\* entity that is not available
HAHost == [unitFirst |-> FALSE, evalUnavailable |-> FALSE]

\* async_write_ha_state of an instance: the instance afterwards (self) and
\* the state written (state).  The host reads `available`; when the entity is
\* available it reads the unit and native_value, then the attributes.  `seen`
\* records the source state the write was computed from.
async_write_ha_state(self) ==
    LET av == available(self)
        unit_before == native_unit_of_measurement(self)
        nv == native_value(self)
        after == IF av \/ host.evalUnavailable THEN nv.self ELSE self
        unit_after == native_unit_of_measurement(after)
    IN  [self |-> after,
         state |->
           [done |-> TRUE,
            seen |-> states[self._source],
            available |-> av,
            state |-> IF av THEN nv.ret ELSE NoneVal,
            unit |-> IF host.unitFirst THEN unit_before ELSE unit_after,
            attributes |-> IF av THEN extra_state_attributes(after) ELSE NoAttrs]]

\* async_added_to_hass: subscribe to the source, then write the first state
async_added_to_hass(i) ==
    /\ i \in Instances
    /\ sensors[i].phase = "created"
    /\ LET w == async_write_ha_state(sensors[i])
       IN  /\ sensors' = [sensors EXCEPT ![i] = [w.self EXCEPT !.phase = "added"]]
           /\ written' = [written EXCEPT ![i] = w.state]
    /\ UNCHANGED <<probe, states, entries, hassData, scheduled, loaded, host, friendly, userFlow, optFlow>>

\* Every added instance, as if each had subscribed to all state changes
SubscribersAll(entity_id) ==
    {i \in Instances : sensors[i].phase = "added"}

\* The instances subscribed to entity_id
Subscribers(entity_id) ==
    {i \in Instances : sensors[i].phase = "added" /\ sensors[i]._source = entity_id}

\* A state change of which no subscriber is notified
SourceChangedUnnotified(entity_id, new_state) ==
    /\ states[entity_id] # new_state
    /\ states' = [states EXCEPT ![entity_id] = new_state]
    /\ UNCHANGED <<probe, entries, hassData, sensors, written, scheduled, loaded, host, friendly, userFlow, optFlow>>

\* The state machine sets (or, with NoState, removes) the state of an upstream
\* entity; every subscriber's _handle_source_state_change runs and schedules
\* an update with force_refresh
SourceChanged(entity_id, new_state) ==
    /\ states[entity_id] # new_state
    /\ \A i \in Subscribers(entity_id) : scheduled[i] < MaxScheduled
    /\ states' = [states EXCEPT ![entity_id] = new_state]
    /\ scheduled' = [i \in Instances |->
          IF i \in Subscribers(entity_id) THEN scheduled[i] + 1 ELSE scheduled[i]]
    /\ UNCHANGED <<probe, entries, hassData, sensors, written, loaded, host, friendly, userFlow, optFlow>>

\* The state machine rewrites the state of an upstream entity with another
\* friendly_name attribute; this is a state change event as well, so every
\* subscriber schedules an update
FriendlyNameChanged(entity_id, name) ==
    /\ states[entity_id] # NoState
    /\ friendly[entity_id] # name
    /\ \A i \in Subscribers(entity_id) : scheduled[i] < MaxScheduled
    /\ friendly' = [friendly EXCEPT ![entity_id] = name]
    /\ scheduled' = [i \in Instances |->
          IF i \in Subscribers(entity_id) THEN scheduled[i] + 1 ELSE scheduled[i]]
    /\ UNCHANGED <<probe, states, entries, hassData, sensors, written, loaded, host, userFlow, optFlow>>

\* A scheduled update runs: async_update_ha_state(force_refresh = True); the
\* class defines no async_update, so it is the state write
RunScheduledUpdate(i) ==
    /\ i \in Instances
    /\ scheduled[i] > 0
    /\ scheduled' = [scheduled EXCEPT ![i] = scheduled[i] - 1]
    /\ LET w == async_write_ha_state(sensors[i])
       IN  /\ sensors' = [sensors EXCEPT ![i] = w.self]
           /\ written' = [written EXCEPT ![i] = w.state]
    /\ UNCHANGED <<probe, states, entries, hassData, loaded, host, friendly, userFlow, optFlow>>

(***************************************************************************)
(* Config entries: __init__.py and the platform setup of sensor.py         *)
(***************************************************************************)
\* Instances ever created in one run of the model
MaxInstances == 4

\* Entry ids, in the order the host hands them out
EntryIds == {"e1", "e2"}

NoEntry == [absent |-> TRUE]
NoData == [absent |-> TRUE]

NextEntryId == IF entries["e1"] = NoEntry THEN "e1" ELSE "e2"

\* aliases.get(src): None when the dict has no such key
AliasGet(aliases, src) == IF src \in DOMAIN aliases THEN aliases[src] ELSE NoneStr

\* sensor.py async_setup_entry: one instance per element of data["sources"],
\* in order, all with the entry's mode, precision and thresholds
RECURSIVE PlatformEntities(_, _, _)
PlatformEntities(entry_id, data, srcs) ==
    IF srcs = <<>> THEN <<>>
    ELSE <<BitrateScalerSensor(entry_id, Head(srcs), AliasGet(data.aliases, Head(srcs)),
                               data.mode, data.precision,
                               IntToFloat(data.thresholds.kbps),
                               IntToFloat(data.thresholds.mbps))>>
         \o PlatformEntities(entry_id, data, Tail(srcs))

\* __init__.py async_setup_entry: store entry.data in hass.data[DOMAIN], then
\* forward to the sensor platform, which builds the instances from that data
async_setup_entry(entry_id) ==
    /\ entries[entry_id] # NoEntry
    /\ loaded[entry_id] = "not_loaded"
    /\ LET data == entries[entry_id].data
           entities == PlatformEntities(entry_id, data, data.sources)
       IN  /\ Len(sensors) + Len(entities) <= MaxInstances
           /\ hassData' = [hassData EXCEPT ![entry_id] = data]
           /\ sensors' = sensors \o entities
           /\ written' = written \o [i \in 1..Len(entities) |-> NotWritten]
           /\ scheduled' = scheduled \o [i \in 1..Len(entities) |-> 0]
    /\ loaded' = [loaded EXCEPT ![entry_id] = "loaded"]
    /\ UNCHANGED <<probe, states, entries, userFlow, optFlow, host, friendly>>

\* async_unload_entry removing the entry's data whatever the platform answers
UnloadAlwaysPops(entry_id, unload_ok) ==
    /\ loaded[entry_id] = "loaded"
    /\ hassData' = [hassData EXCEPT ![entry_id] = NoData]
    /\ IF unload_ok
       THEN /\ sensors' = [i \in Instances |->
                  IF sensors[i]._entry_id = entry_id
                  THEN [sensors[i] EXCEPT !.phase = "removed",
                                          !._display_value = NoneVal,
                                          !._display_unit = "bit/s"]
                  ELSE sensors[i]]
            /\ written' = [i \in Instances |->
                  IF sensors[i]._entry_id = entry_id THEN NotWritten ELSE written[i]]
            /\ scheduled' = [i \in Instances |->
                  IF sensors[i]._entry_id = entry_id THEN 0 ELSE scheduled[i]]
            /\ loaded' = [loaded EXCEPT ![entry_id] = "not_loaded"]
       ELSE /\ loaded' = [loaded EXCEPT ![entry_id] = "failed_unload"]
            /\ UNCHANGED <<sensors, written, scheduled>>
    /\ UNCHANGED <<probe, states, entries, userFlow, optFlow, host, friendly>>

\* __init__.py async_unload_entry; unload_ok is the platform unload's answer.
\* A successful platform unload removes the entry's entities: the host drops
\* their subscriptions and their states, and the instances are never read
\* again (their display cache is cleared here, their configuration is kept).
async_unload_entry(entry_id, unload_ok) ==
    /\ loaded[entry_id] = "loaded"
    /\ IF unload_ok
       THEN /\ hassData' = [hassData EXCEPT ![entry_id] = NoData]
            /\ sensors' = [i \in Instances |->
                  IF sensors[i]._entry_id = entry_id
                  THEN [sensors[i] EXCEPT !.phase = "removed",
                                          !._display_value = NoneVal,
                                          !._display_unit = "bit/s"]
                  ELSE sensors[i]]
            /\ written' = [i \in Instances |->
                  IF sensors[i]._entry_id = entry_id THEN NotWritten ELSE written[i]]
            /\ scheduled' = [i \in Instances |->
                  IF sensors[i]._entry_id = entry_id THEN 0 ELSE scheduled[i]]
            /\ loaded' = [loaded EXCEPT ![entry_id] = "not_loaded"]
       ELSE /\ loaded' = [loaded EXCEPT ![entry_id] = "failed_unload"]
            /\ UNCHANGED <<hassData, sensors, written, scheduled>>
    /\ UNCHANGED <<probe, states, entries, userFlow, optFlow, host, friendly>>

(***************************************************************************)
(* config_flow.py                                                          *)
(***************************************************************************)
Modes == {MODE_FIXED_WITH_ATTR, MODE_DYNAMIC_UNIT}

\* Lexicographic rank of an entity id (TLC does not order strings)
Rank(entity_id) == IF entity_id = "sensor.wan.rx" THEN 1 ELSE 2

\* sorted(sources)
RECURSIVE Insert(_, _)
Insert(x, srt) ==
    IF srt = <<>> THEN <<x>>
    ELSE IF Rank(x) <= Rank(Head(srt)) THEN <<x>> \o srt
    ELSE <<Head(srt)>> \o Insert(x, Tail(srt))

RECURSIVE sorted(_)
sorted(seq) == IF seq = <<>> THEN <<>> ELSE Insert(Head(seq), sorted(Tail(seq)))

\* ",".join(seq)
RECURSIVE Join(_)
Join(seq) ==
    IF seq = <<>> THEN ""
    ELSE IF Len(seq) = 1 THEN Head(seq)
    ELSE Head(seq) \o "," \o Join(Tail(seq))

\* hashlib.sha1(b).hexdigest(), taken as injective
sha1(b) == <<"sha1", b>>

\* _gather_matching_entities: the sensor.*.rx / sensor.*.tx entities that
\* have a state, sorted
_gather_matching_entities ==
    sorted(IF states["sensor.wan.rx"] # NoState
           THEN (IF states["sensor.wan.tx"] # NoState
                 THEN <<"sensor.wan.rx", "sensor.wan.tx">> ELSE <<"sensor.wan.rx">>)
           ELSE (IF states["sensor.wan.tx"] # NoState
                 THEN <<"sensor.wan.tx">> ELSE <<>>))

\* _user_schema: what the host's validation of a submitted form accepts
_user_schema(user_input) ==
    /\ user_input.mode \in Modes
    /\ user_input.precision \in 0..4
    /\ user_input.threshold_kbit >= 1
    /\ user_input.threshold_mbit >= 1000

NoFlow == [type |-> "none", step_id |-> "", errors |-> ""]

ShowForm(step_id, errors) == [type |-> "form", step_id |-> step_id, errors |-> errors]

\* async_step_user(None): the flow starts and shows the form
async_step_user_show ==
    /\ userFlow' = ShowForm("user",
          IF _gather_matching_entities = <<>> THEN "no_matching_entities" ELSE "")
    /\ UNCHANGED <<probe, states, entries, hassData, sensors, written, scheduled,
                   loaded, host, friendly, optFlow>>

\* async_step_user without its test for an empty selection
StepUserUnchecked(user_input) ==
    LET sources == user_input.sources
        unique_id == sha1(Join(sorted(sources)))
        data == [mode |-> user_input.mode,
                 precision |-> user_input.precision,
                 thresholds |-> [kbps |-> user_input.threshold_kbit,
                                 mbps |-> user_input.threshold_mbit],
                 sources |-> sources,
                 aliases |-> <<>>]
    IN  IF \E e \in EntryIds : entries[e] # NoEntry /\ entries[e].unique_id = unique_id
        THEN /\ userFlow' = [type |-> "abort", step_id |-> "", errors |-> "already_configured"]
             /\ UNCHANGED entries
        ELSE /\ \E e \in EntryIds : entries[e] = NoEntry
             /\ entries' = [entries EXCEPT ![NextEntryId] =
                   [data |-> data, unique_id |-> unique_id,
                    title |-> "Bitrate Scaler (" \o ToString(Len(sources)) \o " Quellen)"]]
             /\ userFlow' = [type |-> "create_entry", step_id |-> "", errors |-> ""]

\* The body of async_step_user(user_input) for user_input # None
StepUser(user_input) ==
    LET sources == user_input.sources
        unique_id == sha1(Join(sorted(sources)))
        data == [mode |-> user_input.mode,
                 precision |-> user_input.precision,
                 thresholds |-> [kbps |-> user_input.threshold_kbit,
                                 mbps |-> user_input.threshold_mbit],
                 sources |-> sources,
                 aliases |-> <<>>]
    IN  IF sources = <<>>
        THEN /\ userFlow' = ShowForm("user", "no_sources")
             /\ UNCHANGED entries
        ELSE IF \E e \in EntryIds : entries[e] # NoEntry /\ entries[e].unique_id = unique_id
        THEN /\ userFlow' = [type |-> "abort", step_id |-> "", errors |-> "already_configured"]
             /\ UNCHANGED entries
        ELSE /\ \E e \in EntryIds : entries[e] = NoEntry
             /\ entries' = [entries EXCEPT ![NextEntryId] =
                   [data |-> data, unique_id |-> unique_id,
                    title |-> "Bitrate Scaler (" \o ToString(Len(sources)) \o " Quellen)"]]
             /\ userFlow' = [type |-> "create_entry", step_id |-> "", errors |-> ""]

\* async_step_user(user_input): the form is submitted; the host validates the
\* input against the schema of the form shown before it calls the step
async_step_user(user_input) ==
    /\ userFlow.type = "form"
    /\ _user_schema(user_input)
    /\ StepUser(user_input)
    /\ UNCHANGED <<probe, states, hassData, sensors, written, scheduled, loaded, host, friendly, optFlow>>

\* async_step_import(user_input): the same step, entered without a form
async_step_import(user_input) ==
    /\ StepUser(user_input)
    /\ UNCHANGED <<probe, states, hassData, sensors, written, scheduled, loaded, host, friendly, optFlow>>

\* BitrateScalerOptionsFlow.__init__: no flow in progress is entry = NoneStr
NoOptionsFlow ==
    [entry |-> NoneStr, step_id |-> "", errors |-> "",
     _tmp_sources |-> <<>>, _tmp_mode |-> DEFAULT_MODE,
     _tmp_precision |-> DEFAULT_PRECISION,
     _tmp_kbit |-> DEFAULT_KBIT_THRESHOLD, _tmp_mbit |-> DEFAULT_MBIT_THRESHOLD]

\* The options schema of async_step_init: the validators of _user_schema
options_schema(user_input) ==
    /\ user_input.mode \in Modes
    /\ user_input.precision \in 0..4
    /\ user_input.threshold_kbit >= 1
    /\ user_input.threshold_mbit >= 1000

\* async_get_options_flow(entry), then async_step_init(None): a new flow for
\* the entry shows the init form.  A flow still in progress is abandoned.
async_step_init_show(entry_id) ==
    /\ entries[entry_id] # NoEntry
    /\ optFlow' = [NoOptionsFlow EXCEPT
          !.entry = entry_id,
          !.step_id = "init",
          !.errors = IF _gather_matching_entities = <<>>
                     THEN "no_matching_entities" ELSE ""]
    /\ UNCHANGED <<probe, states, entries, hassData, sensors, written, scheduled,
                   loaded, host, friendly, userFlow>>

\* The body of async_step_init(user_input) for user_input # None
StepInit(user_input) ==
    optFlow' = [optFlow EXCEPT
        !._tmp_mode = user_input.mode,
        !._tmp_precision = user_input.precision,
        !._tmp_kbit = user_input.threshold_kbit,
        !._tmp_mbit = user_input.threshold_mbit,
        !._tmp_sources = user_input.sources,
        !.step_id = IF user_input.sources = <<>> THEN "init" ELSE "aliases",
        !.errors = IF user_input.sources = <<>> THEN "no_sources" ELSE ""]

\* async_step_init(user_input): the init form is submitted (validated by the
\* host against options_schema); with a selection it goes on to
\* async_step_aliases(None), which shows the aliases form
async_step_init(user_input) ==
    /\ optFlow.entry # NoneStr
    /\ optFlow.step_id = "init"
    /\ options_schema(user_input)
    /\ StepInit(user_input)
    /\ UNCHANGED <<probe, states, entries, hassData, sensors, written, scheduled,
                   loaded, host, friendly, userFlow>>

\* What the alias field of src holds when the step runs: the text the user
\* typed, or the field's default (the existing alias, or src) when omitted
Omitted == "<omitted>"

AliasField(existing_aliases, src, typed) ==
    IF typed # Omitted THEN typed
    ELSE IF AliasGet(existing_aliases, src) \notin {NoneStr, ""}
    THEN existing_aliases[src] ELSE src

RECURSIVE SeqToSet(_)
SeqToSet(seq) == IF seq = <<>> THEN {} ELSE {Head(seq)} \cup SeqToSet(Tail(seq))

\* async_step_aliases pushing the new settings into the entry's instances
AliasesStepReachingInstances(typed) ==
    /\ optFlow.entry # NoneStr
    /\ optFlow.step_id = "aliases"
    /\ DOMAIN typed = SeqToSet(optFlow._tmp_sources)
    /\ LET entry == entries[optFlow.entry]
           aliases == [src \in SeqToSet(optFlow._tmp_sources) |->
                          AliasField(entry.data.aliases, src, typed[src])]
           new_data == [mode |-> optFlow._tmp_mode,
                        precision |-> optFlow._tmp_precision,
                        thresholds |-> [kbps |-> optFlow._tmp_kbit,
                                        mbps |-> optFlow._tmp_mbit],
                        sources |-> optFlow._tmp_sources,
                        aliases |-> aliases]
       IN  entries' = [entries EXCEPT ![optFlow.entry] = [entry EXCEPT !.data = new_data]]
    /\ sensors' = [i \in Instances |->
          IF sensors[i]._entry_id = optFlow.entry
          THEN [sensors[i] EXCEPT !._mode = optFlow._tmp_mode,
                                  !._precision = optFlow._tmp_precision,
                                  !._kb_thr = IntToFloat(optFlow._tmp_kbit),
                                  !._mb_thr = IntToFloat(optFlow._tmp_mbit)]
          ELSE sensors[i]]
    /\ optFlow' = NoOptionsFlow
    /\ UNCHANGED <<probe, states, hassData, written, scheduled, loaded, host, friendly, userFlow>>

\* async_step_aliases keeping the aliases stored for sources no longer selected
AliasesStepKeepingAliases(typed) ==
    /\ optFlow.entry # NoneStr
    /\ optFlow.step_id = "aliases"
    /\ DOMAIN typed = SeqToSet(optFlow._tmp_sources)
    /\ LET entry == entries[optFlow.entry]
           existing_aliases == entry.data.aliases
           aliases == [src \in SeqToSet(optFlow._tmp_sources) \cup DOMAIN existing_aliases |->
                          IF src \in SeqToSet(optFlow._tmp_sources)
                          THEN AliasField(existing_aliases, src, typed[src])
                          ELSE existing_aliases[src]]
           new_data == [mode |-> optFlow._tmp_mode,
                        precision |-> optFlow._tmp_precision,
                        thresholds |-> [kbps |-> optFlow._tmp_kbit,
                                        mbps |-> optFlow._tmp_mbit],
                        sources |-> optFlow._tmp_sources,
                        aliases |-> aliases]
       IN  entries' = [entries EXCEPT ![optFlow.entry] = [entry EXCEPT !.data = new_data]]
    /\ optFlow' = NoOptionsFlow
    /\ UNCHANGED <<probe, states, hassData, sensors, written, scheduled, loaded, host, friendly, userFlow>>

\* async_step_aliases(user_input): the aliases form is submitted; typed maps
\* each selected source to the text typed for it, or Omitted.  The entry is
\* updated through async_update_entry and the flow ends.
async_step_aliases(typed) ==
    /\ optFlow.entry # NoneStr
    /\ optFlow.step_id = "aliases"
    /\ DOMAIN typed = SeqToSet(optFlow._tmp_sources)
    /\ LET entry == entries[optFlow.entry]
           existing_aliases == entry.data.aliases
           aliases == [src \in SeqToSet(optFlow._tmp_sources) |->
                          AliasField(existing_aliases, src, typed[src])]
           new_data == [mode |-> optFlow._tmp_mode,
                        precision |-> optFlow._tmp_precision,
                        thresholds |-> [kbps |-> optFlow._tmp_kbit,
                                        mbps |-> optFlow._tmp_mbit],
                        sources |-> optFlow._tmp_sources,
                        aliases |-> aliases]
       IN  entries' = [entries EXCEPT ![optFlow.entry] = [entry EXCEPT !.data = new_data]]
    /\ optFlow' = NoOptionsFlow
    /\ UNCHANGED <<probe, states, hassData, sensors, written, scheduled, loaded, host, friendly, userFlow>>

(***************************************************************************)
(* Specifications                                                          *)
(***************************************************************************)
NoProbe == [called |-> FALSE, raw |-> NoneVal, kb |-> NoneVal, mb |-> NoneVal,
            out |-> [value |-> NoneVal, unit |-> NoneStr]]

\* Nothing configured yet: no entry, no instance, no flow
Idle ==
    /\ friendly = [s \in Sources |-> NoneStr]
    /\ entries = [e \in EntryIds |-> NoEntry]
    /\ hassData = [e \in EntryIds |-> NoData]
    /\ loaded = [e \in EntryIds |-> "not_loaded"]
    /\ sensors = <<>>
    /\ written = <<>>
    /\ scheduled = <<>>
    /\ userFlow = NoFlow
    /\ optFlow = NoOptionsFlow

(* ---- SpecScale: _scale as a pure function ---- *)
ProbeRaws ==
    {Norm(-5, 0), Norm(0, 0), Norm(1, 0), Norm(500, 0), Norm(999, 0), Norm(9995, 1),
     Norm(1000, 0), Norm(1500, 0), Norm(1999, 0), Norm(2000, 0), Norm(999999, 0),
     Norm(1000000, 0), Norm(2500000, 0), PosInf, NegInf, NaN}
ProbeKbits == {1, 1000, 2000}
ProbeMbits == {1000, 2000, 1000000}

InitScale ==
    /\ \E raw \in ProbeRaws, kb \in ProbeKbits, mb \in ProbeMbits :
          probe = [NoProbe EXCEPT !.raw = raw, !.kb = IntToFloat(kb), !.mb = IntToFloat(mb)]
    /\ states = [s \in Sources |-> NoState]
    /\ host \in Hosts
    /\ Idle

ScaleCall ==
    /\ ~probe.called
    /\ probe' = [probe EXCEPT !.called = TRUE, !.out = _scale(probe.raw, probe.kb, probe.mb)]
    /\ UNCHANGED <<states, entries, hassData, sensors, written, scheduled, loaded, host, friendly,
                   userFlow, optFlow>>

NextScale == ScaleCall

SpecScale == InitScale /\ [][NextScale]_vars

(* ---- SpecSensor: the instance of a set-up entry with one source ---- *)
SensorTexts == StateTexts
SensorPrecisions == {0, 2, 4}
SensorThresholds ==
    {<<DEFAULT_KBIT_THRESHOLD, DEFAULT_MBIT_THRESHOLD>>, <<2000, 2000000>>, <<5000, 1000>>}

\* The entry "e1" as the user step creates it from an accepted form with the
\* given selection, set up: its data stored, its instances constructed
Deployed(mode, precision, thr, sources) ==
    LET data == [mode |-> mode, precision |-> precision,
                 thresholds |-> [kbps |-> thr[1], mbps |-> thr[2]],
                 sources |-> sources,
                 aliases |-> <<>>]
        entities == PlatformEntities("e1", data, data.sources)
    IN  /\ probe = NoProbe
        /\ host \in Hosts
        /\ states = [s \in Sources |-> NoState]
        /\ friendly = [s \in Sources |-> NoneStr]
        /\ userFlow = NoFlow
        /\ optFlow = NoOptionsFlow
        /\ entries = [e \in EntryIds |->
              IF e = "e1"
              THEN [data |-> data,
                    unique_id |-> sha1(Join(sorted(data.sources))),
                    title |-> "Bitrate Scaler (" \o ToString(Len(sources)) \o " Quellen)"]
              ELSE NoEntry]
        /\ hassData = [e \in EntryIds |-> IF e = "e1" THEN data ELSE NoData]
        /\ loaded = [e \in EntryIds |-> IF e = "e1" THEN "loaded" ELSE "not_loaded"]
        /\ sensors = entities
        /\ written = [i \in 1..Len(entities) |-> NotWritten]
        /\ scheduled = [i \in 1..Len(entities) |-> 0]

InitSensor ==
    \E mode \in Modes, precision \in SensorPrecisions, thr \in SensorThresholds :
        Deployed(mode, precision, thr, <<"sensor.wan.rx">>)

NextSensor ==
    \/ \E i \in Instances : async_added_to_hass(i)
    \/ \E new_state \in SensorTexts \cup {NoState} :
          SourceChanged("sensor.wan.rx", new_state)
    \/ \E i \in Instances : RunScheduledUpdate(i)

SpecSensor == InitSensor /\ [][NextSensor]_vars

(* ---- SpecPair: the two instances of a set-up entry with two sources ---- *)
PairTexts == {"500", "1500", "unknown"}

InitPair ==
    \E mode \in Modes :
        Deployed(mode, DEFAULT_PRECISION,
                 <<DEFAULT_KBIT_THRESHOLD, DEFAULT_MBIT_THRESHOLD>>,
                 <<"sensor.wan.rx", "sensor.wan.tx">>)

NextPair ==
    \/ \E i \in Instances : async_added_to_hass(i)
    \/ \E entity_id \in Sources, new_state \in PairTexts \cup {NoState} :
          SourceChanged(entity_id, new_state)
    \/ \E i \in Instances : RunScheduledUpdate(i)

SpecPair == InitPair /\ [][NextPair]_vars

(* ---- SpecName: an entry set up, unloaded and set up again while the ---- *)
(* ---- source's state and friendly name change                        ---- *)
NameAliases == {NoneStr, "", "WAN"}
NameTexts == {NoState, "500"}
FriendlyNames == {NoneStr, "WAN down", "Downlink"}

InitName ==
    \E alias \in NameAliases, state \in NameTexts, name \in FriendlyNames :
        /\ probe = NoProbe
        /\ host = HAHost
        /\ states = [s \in Sources |-> state]
        /\ friendly = [s \in Sources |-> name]
        /\ entries = [e \in EntryIds |->
              IF e = "e1"
              THEN [data |-> [mode |-> DEFAULT_MODE, precision |-> DEFAULT_PRECISION,
                              thresholds |-> [kbps |-> DEFAULT_KBIT_THRESHOLD,
                                              mbps |-> DEFAULT_MBIT_THRESHOLD],
                              sources |-> <<"sensor.wan.rx">>,
                              aliases |-> IF alias = NoneStr THEN <<>>
                                          ELSE [src \in {"sensor.wan.rx"} |-> alias]],
                    unique_id |-> sha1(Join(<<"sensor.wan.rx">>)),
                    title |-> "Bitrate Scaler (1 Quellen)"]
              ELSE NoEntry]
        /\ hassData = [e \in EntryIds |-> NoData]
        /\ loaded = [e \in EntryIds |-> "not_loaded"]
        /\ sensors = <<>>
        /\ written = <<>>
        /\ scheduled = <<>>
        /\ userFlow = NoFlow
        /\ optFlow = NoOptionsFlow

NextName ==
    \/ async_setup_entry("e1")
    \/ async_unload_entry("e1", TRUE)
    \/ \E i \in Instances : async_added_to_hass(i)
    \/ \E new_state \in NameTexts : SourceChanged("sensor.wan.rx", new_state)
    \/ \E name \in FriendlyNames : FriendlyNameChanged("sensor.wan.rx", name)
    \/ \E i \in Instances : RunScheduledUpdate(i)

SpecName == InitName /\ [][NextName]_vars

(* ---- The forms a user submits ---- *)
\* The settings a submitted form carries, the last two refused by the schema
FormSettings ==
    {[mode |-> DEFAULT_MODE, precision |-> DEFAULT_PRECISION,
      threshold_kbit |-> DEFAULT_KBIT_THRESHOLD, threshold_mbit |-> DEFAULT_MBIT_THRESHOLD],
     [mode |-> MODE_DYNAMIC_UNIT, precision |-> 0,
      threshold_kbit |-> 5000, threshold_mbit |-> 1000],
     [mode |-> MODE_DYNAMIC_UNIT, precision |-> 0,
      threshold_kbit |-> 0, threshold_mbit |-> 1000000],
     [mode |-> DEFAULT_MODE, precision |-> DEFAULT_PRECISION,
      threshold_kbit |-> DEFAULT_KBIT_THRESHOLD, threshold_mbit |-> 999]}

\* The forms with the given settings and selections
Forms(settings, selections) ==
    {[mode |-> f.mode, precision |-> f.precision, threshold_kbit |-> f.threshold_kbit,
      threshold_mbit |-> f.threshold_mbit, sources |-> sel] :
        f \in settings, sel \in selections}

\* The submissions of an aliases form: a text, or nothing, for each source
AliasForms(texts) == UNION {[S -> texts] : S \in SUBSET Sources}

(* ---- SpecFlow: the config flow and the options flow ---- *)
FlowSelections ==
    {<<>>, <<"sensor.wan.rx">>, <<"sensor.wan.rx", "sensor.wan.tx">>,
     <<"sensor.wan.tx", "sensor.wan.rx">>}

InitFlow ==
    /\ probe = NoProbe
    /\ host = HAHost
    /\ states = [s \in Sources |-> "1500"]
    /\ Idle

NextFlow ==
    \/ async_step_user_show
    \/ \E user_input \in Forms(FormSettings, FlowSelections) : async_step_user(user_input)
    \/ \E user_input \in Forms(FormSettings, FlowSelections) : async_step_import(user_input)
    \/ \E entry_id \in EntryIds : async_step_init_show(entry_id)
    \/ \E user_input \in Forms(FormSettings, FlowSelections) : async_step_init(user_input)
    \/ \E typed \in AliasForms({Omitted, "WAN"}) : async_step_aliases(typed)

SpecFlow == InitFlow /\ [][NextFlow]_vars

(* ---- SpecSetup: entries created by the user and import steps, set ---- *)
(* ---- up and unloaded                                               ---- *)
\* Source lists a submission carries; neither the schema nor the import step
\* refuses a list that names an entity twice
SetupSelections ==
    {<<"sensor.wan.rx">>, <<"sensor.wan.tx", "sensor.wan.rx">>,
     <<"sensor.wan.rx", "sensor.wan.rx">>}

SetupSettings ==
    {[mode |-> DEFAULT_MODE, precision |-> DEFAULT_PRECISION,
      threshold_kbit |-> DEFAULT_KBIT_THRESHOLD, threshold_mbit |-> DEFAULT_MBIT_THRESHOLD]}

InitSetup ==
    /\ probe = NoProbe
    /\ host = HAHost
    /\ states = [s \in Sources |-> "1500"]
    /\ Idle

NextSetup ==
    \/ async_step_user_show
    \/ \E user_input \in Forms(SetupSettings, SetupSelections) : async_step_user(user_input)
    \/ \E user_input \in Forms(SetupSettings, SetupSelections) : async_step_import(user_input)
    \/ \E entry_id \in EntryIds : async_setup_entry(entry_id)
    \/ \E entry_id \in EntryIds, unload_ok \in BOOLEAN : async_unload_entry(entry_id, unload_ok)
    \/ \E i \in Instances : async_added_to_hass(i)

SpecSetup == InitSetup /\ [][NextSetup]_vars

(* ---- Spec: one entry from the user flow to its instances at run time ---- *)
Selections == {<<>>, <<"sensor.wan.rx">>}

Init ==
    /\ probe = NoProbe
    /\ host = HAHost
    /\ states = [s \in Sources |-> "1500"]
    /\ Idle

Next ==
    \/ async_step_user_show
    \/ \E user_input \in Forms(FormSettings, Selections) : async_step_user(user_input)
    \/ \E entry_id \in EntryIds : async_setup_entry(entry_id)
    \/ \E entry_id \in EntryIds, unload_ok \in BOOLEAN : async_unload_entry(entry_id, unload_ok)
    \/ \E entry_id \in EntryIds : async_step_init_show(entry_id)
    \/ \E user_input \in Forms(FormSettings, Selections) : async_step_init(user_input)
    \/ \E typed \in AliasForms({Omitted}) : async_step_aliases(typed)
    \/ \E i \in Instances : async_added_to_hass(i)
    \/ \E new_state \in {"500", "1500"} : SourceChanged("sensor.wan.rx", new_state)
    \/ \E i \in Instances : RunScheduledUpdate(i)

Spec == Init /\ [][Next]_vars

(***************************************************************************)
(* Claims                                                                  *)
(***************************************************************************)
\* C1: for a non-NaN raw value and thresholds with mbit > kbit > 0, _scale
\* returns (raw, "bit/s") below the kbit threshold, (raw/1000, "kbit/s") from
\* the kbit threshold up to but excluding the mbit threshold, and
\* (raw/1000000, "Mbit/s") from the mbit threshold on; both thresholds are
\* inclusive lower bounds.
C1_ScaleTiers ==
    (/\ probe.called
     /\ ~isnan(probe.raw)
     /\ FloatGt(probe.mb, probe.kb)
     /\ FloatGt(probe.kb, IntToFloat(0)))
    => /\ ~FloatGe(probe.raw, probe.kb)
            => probe.out = [value |-> probe.raw, unit |-> "bit/s"]
       /\ (FloatGe(probe.raw, probe.kb) /\ ~FloatGe(probe.raw, probe.mb))
            => probe.out = [value |-> FloatDivPow10(probe.raw, 3), unit |-> "kbit/s"]
       /\ FloatGe(probe.raw, probe.mb)
            => probe.out = [value |-> FloatDivPow10(probe.raw, 6), unit |-> "Mbit/s"]
       /\ probe.raw = probe.kb => probe.out.unit = "kbit/s"
       /\ probe.raw = probe.mb => probe.out.unit = "Mbit/s"

\* C1 witness: raw exactly on the kbit threshold of a valid pair lands in
\* kbit/s with value 1 (1000 / 1000)
C1_Witness ==
    /\ probe.called
    /\ probe.raw = IntToFloat(1000)
    /\ probe.kb = IntToFloat(1000)
    /\ probe.mb = IntToFloat(1000000)
    /\ probe.out = [value |-> IntToFloat(1), unit |-> "kbit/s"]

\* The source state a write was computed from parses as a float
Parsed(w) == w.seen # NoState /\ float(w.seen).ok

\* scale(r) for the source state r that the last write of instance i saw
ScaledSeen(i) ==
    _scale(float(written[i].seen).v, sensors[i]._kb_thr, sensors[i]._mb_thr)

\* C2: in dynamic-unit mode every write for a source state that parses to r
\* carries the value round(scale(r).value, precision) and the unit
\* scale(r).unit, whichever of unit and value the host reads first.
C2_DynamicValueAndUnit ==
    \A i \in Instances :
        (/\ written[i].done
         /\ sensors[i]._mode = MODE_DYNAMIC_UNIT
         /\ Parsed(written[i]))
        => /\ written[i].state = round(ScaledSeen(i).value, sensors[i]._precision)
           /\ written[i].unit = ScaledSeen(i).unit

\* C3: in fixed mode every write carries the unit "bit/s", and for a source
\* state that parses to r the value round(r, precision), never a scaled one.
C3_FixedValueAndUnit ==
    \A i \in Instances :
        (written[i].done /\ sensors[i]._mode = MODE_FIXED_WITH_ATTR)
        => /\ written[i].unit = "bit/s"
           /\ Parsed(written[i])
                => written[i].state =
                      round(float(written[i].seen).v, sensors[i]._precision)

\* C3 witness: a fixed-mode instance wrote 2500000 bit/s for the source state
\* "2500000", a value in the Mbit/s tier
C3_Witness ==
    \E i \in Instances :
        /\ written[i].done
        /\ sensors[i]._mode = MODE_FIXED_WITH_ATTR
        /\ written[i].seen = "2500000"
        /\ ScaledSeen(i).unit = "Mbit/s"
        /\ written[i].state = IntToFloat(2500000)
        /\ written[i].unit = "bit/s"

\* C4: in fixed mode every write for a source state that parses to a non-NaN
\* r carries the attribute display_value_str = scale(r).value in fixed-point
\* notation with `precision` fractional digits, a space, and scale(r).unit,
\* computed from the source state the written value was computed from.
C4_FixedDisplayAttribute ==
    \A i \in Instances :
        (/\ written[i].done
         /\ sensors[i]._mode = MODE_FIXED_WITH_ATTR
         /\ Parsed(written[i])
         /\ ~isnan(float(written[i].seen).v))
        => written[i].attributes.display_value_str =
              FormatFixed(ScaledSeen(i).value, sensors[i]._precision)
                 \o " " \o ScaledSeen(i).unit

\* C4 witness: fixed mode, precision 2, default thresholds, the source went
\* from "500" to "2500000": the write carries "2.50 Mbit/s"
C4_Witness ==
    \E i \in Instances :
        /\ written[i].done
        /\ sensors[i]._mode = MODE_FIXED_WITH_ATTR
        /\ sensors[i]._precision = 2
        /\ written[i].seen = "2500000"
        /\ written[i].state = IntToFloat(2500000)
        /\ written[i].attributes.display_value_str = "2.50 Mbit/s"

\* C5: a write reports the instance available exactly when the source has a
\* state that parses as a finite number; no state, a non-numeric state, NaN
\* and the infinities all give unavailable.
C5_AvailableIffFinite ==
    \A i \in Instances :
        written[i].done
        => (written[i].available
              <=> (Parsed(written[i]) /\ float(written[i].seen).v.k = "num"))

\* C6: once a write has found the instance unavailable (source removed, or
\* source state not parseable), the instance holds no reading: the cached
\* display value is absent, the cached unit is "bit/s", and the attributes
\* expose no display_value_str.
C6_UnavailableHoldsNoReading ==
    \A i \in Instances :
        (written[i].done /\ ~written[i].available)
        => /\ sensors[i]._display_value = NoneVal
           /\ sensors[i]._display_unit = "bit/s"
           /\ extra_state_attributes(sensors[i]).display_value_str = NoneStr

\* What a write publishes, apart from the attributes that repeat the
\* configuration
Published(i) ==
    [available |-> written[i].available,
     state |-> written[i].state,
     unit |-> written[i].unit,
     display_unit |-> IF written[i].available
                      THEN written[i].attributes.display_unit ELSE NoneStr,
     display_value_str |-> IF written[i].available
                           THEN written[i].attributes.display_value_str ELSE NoneStr]

SameConfiguration(i, j) ==
    /\ sensors[i]._mode = sensors[j]._mode
    /\ sensors[i]._precision = sensors[j]._precision
    /\ sensors[i]._kb_thr = sensors[j]._kb_thr
    /\ sensors[i]._mb_thr = sensors[j]._mb_thr

\* C7: no hysteresis: two instances with the same configuration whose last
\* writes saw the same source state have published the same availability,
\* value, unit and display attributes, whatever their earlier histories.
C7_NoHysteresis ==
    \A i, j \in Instances :
        (/\ written[i].done /\ written[j].done
         /\ SameConfiguration(i, j)
         /\ written[i].seen = written[j].seen)
        => Published(i) = Published(j)

\* C8: no entry ever holds an empty sources list, and a submission with an
\* empty selection (user step, import step, options init step) shows the form
\* again with the no_sources error and leaves the stored entries unchanged.
C8_EmptySelectionRejected ==
    /\ [](\A e \in EntryIds : entries[e] # NoEntry => entries[e].data.sources # <<>>)
    /\ [][\A user_input \in Forms(FormSettings, {<<>>}) :
            /\ (async_step_user(user_input) \/ async_step_import(user_input))
                 => (userFlow' = ShowForm("user", "no_sources") /\ entries' = entries)
            /\ async_step_init(user_input)
                 => /\ optFlow'.step_id = "init"
                    /\ optFlow'.errors = "no_sources"
                    /\ entries' = entries]_vars

\* C8 witness: with an entry stored, an empty selection has been refused by
\* the user step and by the options init step
C8_Witness ==
    /\ userFlow = ShowForm("user", "no_sources")
    /\ optFlow.entry # NoneStr
    /\ optFlow.step_id = "init"
    /\ optFlow.errors = "no_sources"
    /\ optFlow._tmp_sources = <<>>
    /\ entries[optFlow.entry].data.sources # <<>>

\* C9: every instance created from a configuration the flows accepted (kbit
\* an integer >= 1, mbit an integer >= 1000) holds mbit_threshold >
\* kbit_threshold > 0.
C9_ThresholdOrdering ==
    \A i \in Instances :
        /\ FloatGt(sensors[i]._mb_thr, sensors[i]._kb_thr)
        /\ FloatGt(sensors[i]._kb_thr, IntToFloat(0))

\* The configuration an instance was constructed with
Configuration(self) ==
    [kbit_threshold |-> self._kb_thr, mbit_threshold |-> self._mb_thr,
     mode |-> self._mode, precision |-> self._precision, source |-> self._source]

\* The configuration an instance gets from entry data at platform setup
ConfigurationFrom(data, source) ==
    [kbit_threshold |-> IntToFloat(data.thresholds.kbps),
     mbit_threshold |-> IntToFloat(data.thresholds.mbps),
     mode |-> data.mode, precision |-> data.precision, source |-> source]

\* C10: no step changes the thresholds, mode, precision or source of an
\* instance that already exists (source events, state writes and options-flow
\* submissions included); an instance appears only with the values the entry
\* holds at the setup that creates it.
C10_ConfigurationFixedAtConstruction ==
    [][/\ \A i \in DOMAIN sensors :
             /\ i \in DOMAIN sensors'
             /\ Configuration(sensors'[i]) = Configuration(sensors[i])
       /\ \A i \in (DOMAIN sensors') \ (DOMAIN sensors) :
             /\ entries[sensors'[i]._entry_id] # NoEntry
             /\ sensors'[i]._source \in SeqToSet(entries[sensors'[i]._entry_id].data.sources)
             /\ Configuration(sensors'[i]) =
                   ConfigurationFrom(entries[sensors'[i]._entry_id].data,
                                     sensors'[i]._source)]_vars

\* C10 witness: an options-flow submission changed the entry while instance i
\* was in use (it wrote a state and is still subscribed) and i keeps the old
\* values
C10_Witness ==
    \E i \in Instances :
        /\ sensors[i].phase = "added"
        /\ written[i].done
        /\ sensors[i]._source \in SeqToSet(entries[sensors[i]._entry_id].data.sources)
        /\ Configuration(sensors[i]) #
              ConfigurationFrom(entries[sensors[i]._entry_id].data, sensors[i]._source)
        /\ sensors[i]._mode # entries[sensors[i]._entry_id].data.mode

\* What instance i holds and has published: its display cache and the state
\* it last wrote
Reading(i) ==
    [display_value |-> sensors[i]._display_value,
     display_unit |-> sensors[i]._display_unit,
     published |-> written[i]]

\* C11: instances are independent.  A change of a source schedules an update
\* for exactly the added instances bound to it and leaves the cache, the
\* published state and the pending updates of instances bound to another
\* source as they were; a step that changes one instance's cache or published
\* state is that instance's own write, computed from its own source, and
\* leaves every other instance as it was.
C11_IndependentInstances ==
    [][/\ \A e \in Sources :
            states'[e] # states[e]
            => \A i \in Instances :
                  /\ sensors[i]._source # e
                       => /\ Reading(i)' = Reading(i)
                          /\ scheduled'[i] = scheduled[i]
                  /\ (sensors[i]._source = e /\ sensors[i].phase = "added")
                       => scheduled'[i] = scheduled[i] + 1
       /\ \A i \in Instances :
            Reading(i)' # Reading(i)
            => /\ written'[i].seen = states[sensors[i]._source]
               /\ \A j \in Instances \ {i} :
                     Reading(j)' = Reading(j) /\ scheduled'[j] = scheduled[j]]_vars

\* C11 witness: both instances are added, the rx source went to "1500" and its
\* instance published 1.5 kbit/s, while the instance bound to tx still holds
\* what it published for "500"
C11_Witness ==
    /\ Len(sensors) = 2
    /\ sensors[1]._source = "sensor.wan.rx"
    /\ sensors[2]._source = "sensor.wan.tx"
    /\ sensors[1]._mode = MODE_DYNAMIC_UNIT
    /\ written[1].done /\ written[1].seen = "1500"
    /\ written[2].done /\ written[2].seen = "500"
    /\ sensors[1]._display_unit = "kbit/s"
    /\ sensors[2]._display_unit = "bit/s"
    /\ states["sensor.wan.tx"] = "unknown"
    /\ scheduled[2] > 0

\* The display name the naming policy gives for an alias, the source's state
\* and friendly name, and the source's identifier
PolicyName(alias, src_state, friendly_name, source_entity_id) ==
    (CASE alias \notin {NoneStr, ""} -> alias
       [] alias \in {NoneStr, ""} /\ src_state # NoState
              /\ friendly_name \notin {NoneStr, ""} -> friendly_name
       [] OTHER -> source_entity_id) \o " (skaliert)"

\* C12: an instance is created with the name the policy gives for the alias
\* stored for its source and the source's state and friendly name at that
\* moment (alias, else friendly name, else source identifier, plus the
\* marker), and no later step changes the name of an existing instance.
C12_NameResolvedOnce ==
    [][/\ \A i \in (DOMAIN sensors') \ (DOMAIN sensors) :
             sensors'[i]._attr_name =
                PolicyName(AliasGet(entries[sensors'[i]._entry_id].data.aliases,
                                    sensors'[i]._source),
                           states[sensors'[i]._source],
                           friendly[sensors'[i]._source],
                           sensors'[i]._source)
       /\ \A i \in DOMAIN sensors :
             sensors'[i]._attr_name = sensors[i]._attr_name]_vars

\* C12 witness: an instance named after the friendly name its source had at
\* creation has since published while the source carries another friendly
\* name, and a second one was created while the source had no state
C12_Witness ==
    \E i, j \in Instances :
        /\ sensors[i]._attr_name = "WAN down (skaliert)"
        /\ sensors[j]._attr_name = "sensor.wan.rx (skaliert)"
        /\ sensors[j].phase = "added"
        /\ written[j].done
        /\ states[sensors[j]._source] # NoState
        /\ friendly[sensors[j]._source] = "Downlink"

\* C13: for any thresholds and in both modes, a write for a source state that
\* parses to NaN completes with NaN as the value, the reading (NaN, "bit/s")
\* in the display cache and in the display_unit attribute, and no
\* display_value_str attribute.
C13_NaNPropagated ==
    \A i \in Instances :
        (/\ written[i].done
         /\ Parsed(written[i])
         /\ isnan(float(written[i].seen).v))
        => /\ ScaledSeen(i) = [value |-> NaN, unit |-> "bit/s"]
           /\ written[i].state = NaN
           /\ sensors[i]._display_value = NaN
           /\ sensors[i]._display_unit = "bit/s"
           /\ written[i].attributes.display_unit = "bit/s"
           /\ written[i].attributes.display_value_str = NoneStr

\* C13 witness: an instance that held a kbit/s reading wrote NaN for the
\* source state "nan"
C13_Witness ==
    \E i \in Instances :
        /\ written[i].done
        /\ written[i].seen = "nan"
        /\ written[i].state = NaN
        /\ written[i].attributes.display_value_str = NoneStr
        /\ scheduled[i] > 0
        /\ states[sensors[i]._source] = "1500"

\* C14: an instance in dynamic-unit mode never exposes the display_value_str
\* attribute, neither in a state it wrote nor in what the property returns.
C14_DynamicOmitsDisplayAttribute ==
    \A i \in Instances :
        sensors[i]._mode = MODE_DYNAMIC_UNIT
        => /\ extra_state_attributes(sensors[i]).display_value_str = NoneStr
           /\ (written[i].done /\ written[i].available)
                => written[i].attributes.display_value_str = NoneStr

\* The value a write for source state text gives in the instance's mode
ValueFor(self, text) ==
    IF self._mode = MODE_DYNAMIC_UNIT
    THEN round(_scale(float(text).v, self._kb_thr, self._mb_thr).value, self._precision)
    ELSE round(float(text).v, self._precision)

\* C15: refresh is pull-on-notify.  Every write is computed from the state the
\* source has when the write runs; an added instance has published; and an
\* added instance with no refresh pending has published for the source's
\* current state: unavailable when the source has no state or a state that
\* does not parse, available with the value for that state when it parses to
\* a finite number.
C15_PullOnNotify ==
    /\ [][\A i \in Instances :
            written'[i] # written[i] /\ written'[i].done
            => written'[i].seen = states'[sensors[i]._source]]_vars
    /\ [](\A i \in Instances :
            sensors[i].phase = "added"
            => /\ written[i].done
               /\ scheduled[i] = 0
                    => /\ written[i].seen = states[sensors[i]._source]
                       /\ ~Parsed(written[i]) => ~written[i].available
                       /\ (Parsed(written[i]) /\ float(written[i].seen).v.k = "num")
                            => /\ written[i].available
                               /\ written[i].state = ValueFor(sensors[i], written[i].seen))

\* C15 witness: the source changed twice since the last write, from "500" to
\* "2500000", and both refreshes are still pending
C15_Witness ==
    \E i \in Instances :
        /\ sensors[i].phase = "added"
        /\ written[i].done
        /\ written[i].seen = "500"
        /\ states[sensors[i]._source] = "2500000"
        /\ scheduled[i] = MaxScheduled

\* The instances a step created
Created == (DOMAIN sensors') \ (DOMAIN sensors)

\* C16: the setup of an entry creates exactly one instance for each source the
\* entry configures and none for anything else; the instances of one entry
\* that are in use have pairwise distinct identifiers, each of the form
\* <domain>:<entry-id>:<source-id>; and no step changes the identifier of an
\* existing instance.
C16_OneSensorPerSource ==
    /\ [][\A e \in EntryIds :
            (loaded[e] = "not_loaded" /\ loaded'[e] = "loaded")
            => /\ \A src \in SeqToSet(entries[e].data.sources) :
                     Cardinality({i \in Created : sensors'[i]._source = src}) = 1
               /\ \A i \in Created :
                     /\ sensors'[i]._entry_id = e
                     /\ sensors'[i]._source \in SeqToSet(entries[e].data.sources)]_vars
    /\ [][\A i \in DOMAIN sensors :
            sensors'[i]._attr_unique_id = sensors[i]._attr_unique_id]_vars
    /\ [](\A i \in Instances :
            /\ sensors[i]._attr_unique_id =
                  "bitrate_scaler:" \o sensors[i]._entry_id \o ":" \o sensors[i]._source
            /\ \A j \in Instances \ {i} :
                  (/\ sensors[i]._entry_id = sensors[j]._entry_id
                   /\ sensors[i].phase # "removed"
                   /\ sensors[j].phase # "removed")
                  => sensors[i]._attr_unique_id # sensors[j]._attr_unique_id)

\* C17: showing the init form (a new flow, a flow in progress being
\* abandoned) and submitting the init step leave every entry as it was, the
\* init step buffering what was submitted; the step that ends the flow, the
\* submission of the aliases step, sets the entry's mode, precision,
\* thresholds and sources to the buffered values and its alias map to one with
\* exactly the selected sources as keys, and leaves the other entries alone.
C17_OptionsWrittenAtAliasesStep ==
    [][/\ \A entry_id \in EntryIds : async_step_init_show(entry_id) => entries' = entries
       /\ \A user_input \in Forms(FormSettings, FlowSelections) :
            async_step_init(user_input)
            => /\ entries' = entries
               /\ optFlow'._tmp_mode = user_input.mode
               /\ optFlow'._tmp_precision = user_input.precision
               /\ optFlow'._tmp_kbit = user_input.threshold_kbit
               /\ optFlow'._tmp_mbit = user_input.threshold_mbit
               /\ optFlow'._tmp_sources = user_input.sources
       /\ (optFlow.step_id = "aliases" /\ optFlow'.entry = NoneStr)
            => /\ entries'[optFlow.entry].data.mode = optFlow._tmp_mode
               /\ entries'[optFlow.entry].data.precision = optFlow._tmp_precision
               /\ entries'[optFlow.entry].data.thresholds =
                     [kbps |-> optFlow._tmp_kbit, mbps |-> optFlow._tmp_mbit]
               /\ entries'[optFlow.entry].data.sources = optFlow._tmp_sources
               /\ DOMAIN entries'[optFlow.entry].data.aliases = SeqToSet(optFlow._tmp_sources)
               /\ \A e \in EntryIds \ {optFlow.entry} : entries'[e] = entries[e]]_vars

\* C17 witness: an entry created for rx and tx, given aliases for both, was
\* then reduced to rx with other thresholds: the alias of tx is gone
C17_Witness ==
    \E e \in EntryIds :
        /\ entries[e] # NoEntry
        /\ entries[e].unique_id = sha1("sensor.wan.rx,sensor.wan.tx")
        /\ entries[e].data.sources = <<"sensor.wan.rx">>
        /\ entries[e].data.thresholds = [kbps |-> 5000, mbps |-> 1000]
        /\ DOMAIN entries[e].data.aliases = {"sensor.wan.rx"}
        /\ entries[e].data.aliases["sensor.wan.rx"] = "WAN"
        /\ optFlow.entry = NoneStr

\* C18: hass.data[DOMAIN] holds data under an entry id exactly when the entry
\* has been set up and not successfully unloaded since.  A setup stores the
\* entry's data; a successful unload removes it; a failed unload keeps it and
\* reports the failure; none of them touches the data of another entry.
C18_RegistryFollowsSetupAndUnload ==
    /\ [](\A e \in EntryIds :
            hassData[e] # NoData <=> loaded[e] \in {"loaded", "failed_unload"})
    /\ [][\A e \in EntryIds :
            /\ async_setup_entry(e)
                 => /\ hassData'[e] = entries[e].data
                    /\ \A o \in EntryIds \ {e} : hassData'[o] = hassData[o]
            /\ async_unload_entry(e, TRUE)
                 => /\ hassData'[e] = NoData
                    /\ loaded'[e] = "not_loaded"
                    /\ \A o \in EntryIds \ {e} : hassData'[o] = hassData[o]
            /\ async_unload_entry(e, FALSE)
                 => /\ hassData'[e] = hassData[e]
                    /\ loaded'[e] = "failed_unload"
                    /\ \A o \in EntryIds \ {e} : hassData'[o] = hassData[o]]_vars

\* C18 witness: of two entries that were set up, one was unloaded and its data
\* is gone, the other's unload failed and its data is still there
C18_Witness ==
    \E e, o \in EntryIds :
        /\ loaded[e] = "failed_unload"
        /\ hassData[e] = entries[e].data
        /\ loaded[o] = "not_loaded"
        /\ hassData[o] = NoData
        /\ \E i \in Instances : sensors[i]._entry_id = o /\ sensors[i].phase = "removed"

\* C19: a setup submission (user or import step) with a non-empty selection
\* is aborted, creating nothing, when an entry is configured for the same set
\* of sources, in whatever order, and creates a new entry for the selection
\* otherwise.
C19_UniqueIdBySourceSet ==
    [][\A user_input \in Forms(FormSettings, FlowSelections \ {<<>>}) :
          (async_step_user(user_input) \/ async_step_import(user_input))
          => IF \E e \in EntryIds :
                   /\ entries[e] # NoEntry
                   /\ SeqToSet(entries[e].data.sources) = SeqToSet(user_input.sources)
             THEN /\ userFlow'.type = "abort"
                  /\ entries' = entries
             ELSE /\ userFlow'.type = "create_entry"
                  /\ \E e \in EntryIds :
                        /\ entries[e] = NoEntry
                        /\ entries'[e] # NoEntry
                        /\ entries'[e].data.sources = user_input.sources]_vars

====
